---- MODULE Spec2Model ----
(***************************************************************************)
(* Trading-data validation and fallback substitution of                    *)
(* python/processors/data_processor.py: parse_numeric, in_bounds,          *)
(* DataProcessor.validate_prices, DataProcessor.get_fallback_prices and    *)
(* DataProcessor.process_trading_rows; analyze_trends of                   *)
(* python/agent/analysis.py; YahooFinanceScraper.scrape and _parse_value   *)
(* of scrapers/yahoo_finance.py; BaseScraper._make_request of              *)
(* scrapers/base_scraper.py.                                               *)
(*                                                                         *)
(* Numbers.  A float is a decimal Num(m, e) = m * 10^e with |m| <= 9999,   *)
(* kept in normal form (m carries no trailing zero), so that equality of   *)
(* records is equality of numbers and DecLE compares exactly.  The absent  *)
(* value (None / NaN of a column) is NULL.                                 *)
(*                                                                         *)
(* Texts.  A str is the sequence of its characters; float() and int() are  *)
(* the grammar of Python on such sequences and give a decimal, nan, inf or *)
(* ValueError.  The decimals stand for the floats they write: the rounding *)
(* of binary floating point and exponents beyond the float range are not   *)
(* modelled.                                                               *)
(*                                                                         *)
(* Timestamps.  A normalised ISO-8601 string is modelled by its rank in    *)
(* the string order the code sorts and groups by; NoTs is a row without    *)
(* the key ts.  Values read from the clock are ClockBase and above.        *)
(***************************************************************************)
EXTENDS Integers, Sequences, FiniteSets, TLC

VARIABLES
    pc,             \* position of the running call
    raw_rows,       \* argument of validate_prices / process_trading_rows
    clock,          \* last value read by utc_now_iso
    df,             \* validate_prices: the frame with invalid_reason filled
    base_reason,    \* validate_prices: invalid_reason after _check_bounds
    cleaned,        \* first pass: cleaned_df; at the end: the returned frame
    needs_fallback, \* first pass: needs_fallback
    reasons,        \* first pass: reasons (the set of symbols mapped to constant_price_last_5)
    prefer,         \* get_fallback_prices: argument prefer
    available,      \* get_fallback_prices: scraper classes whose import succeeded
    requested,      \* get_fallback_prices: argument symbols
    todo,           \* get_fallback_prices: symbols the outer loop has not visited
    cur,            \* get_fallback_prices: sym of the running iteration
    pidx,           \* get_fallback_prices: index in providers of the next call
    tried,          \* get_fallback_prices: calls made for cur, in order
    results,        \* get_fallback_prices: results
    history,        \* get_fallback_prices: calls made per finished symbol
    fb_cleaned,     \* process_trading_rows: fb_cleaned
    blocked,        \* process_trading_rows: blocked
    run,            \* number of calls of process_trading_rows started
    coin,           \* analyze_trends: argument coin
    risk_level,     \* analyze_trends: argument risk_level
    blocked_arg,    \* analyze_trends: argument blocked_symbols
    data,           \* analyze_trends: argument data, column name -> last value
    strategy,       \* analyze_trends: what the call gave
    args,           \* in_bounds, parse_numeric, _parse_value: the arguments of the call
    ret,            \* in_bounds, parse_numeric, _parse_value: what the call gave
    yf_symbols,     \* YahooFinanceScraper.scrape: argument symbols
    yf_result,      \* YahooFinanceScraper.scrape: result
    yf_calls,       \* YahooFinanceScraper.scrape: calls of scrape_symbol made, in order
    retry_count,    \* BaseScraper: self.retry_count
    retry_delay,    \* BaseScraper: self.retry_delay
    attempt,        \* BaseScraper._make_request: loop variable attempt
    gets,           \* BaseScraper._make_request: answers of session.get, in order
    slept           \* BaseScraper._make_request: arguments of time.sleep, in order

vars == <<pc, raw_rows, clock, df, base_reason, cleaned, needs_fallback, reasons,
          prefer, available, requested, todo, cur, pidx, tried, results, history,
          fb_cleaned, blocked, run, coin, risk_level, blocked_arg, data, strategy,
          args, ret, yf_symbols, yf_result, yf_calls,
          retry_count, retry_delay, attempt, gets, slept>>

\* the arguments and the result of analyze_trends
analysis == <<coin, risk_level, blocked_arg, data, strategy>>

\* the arguments and the result of a call of one of the pure functions
pure == <<args, ret>>

\* the state of the scrapers of scrapers/yahoo_finance.py and scrapers/base_scraper.py
scrapers == <<yf_symbols, yf_result, yf_calls, retry_count, retry_delay, attempt, gets, slept>>

-----------------------------------------------------------------------------
(* Bounds of the model *)

\* the longest text given to parse_numeric
MaxTextLen == 3
\* the longest text given to YahooFinanceScraper._parse_value
MaxValueLen == 4
\* the largest retry_count of a BaseScraper
MaxRetries == 4
\* the longest list of symbols given to YahooFinanceScraper.scrape
MaxSymbols == 3
MaxRows == 3
\* the longest batch of rows with missing or non-string symbols
MaxCheckRows == 3
MaxMixedRows == 2
MaxStuckRows == 6

-----------------------------------------------------------------------------
(* Values *)

NULL == [k |-> "null"]
Num(m, e) == [k |-> "num", m |-> m, e |-> e]

NoTs == -1
\* a ts value that pd.to_datetime cannot parse
BadTs == -2
ClockBase == 10

NoReason == "none"

\* a row without the key symbol: NaN in the column symbol
NoSymbol == "<NaN>"
\* a row whose symbol is the int 123
NumSymbol == "<123>"

\* the sequence seq with its elements evaluated once
Rows(seq) == SubSeq(seq, 1, Cardinality(DOMAIN seq))

RECURSIVE Pow10(_)
Pow10(n) == IF n = 0 THEN 1 ELSE 10 * Pow10(n - 1)

\* float of a decimal literal: the normal form of m * 10^e
RECURSIVE Norm(_, _)
Norm(m, e) ==
    IF m = 0 THEN Num(0, 0)
    ELSE IF m % 10 = 0 THEN Norm(m \div 10, e + 1)
    ELSE Num(m, e)

\* a <= b for positive decimals of at most four digits
PosLE(a, b) ==
    IF a.e >= b.e
    THEN IF a.e - b.e >= 5 THEN FALSE ELSE a.m * Pow10(a.e - b.e) <= b.m
    ELSE IF b.e - a.e >= 5 THEN TRUE ELSE a.m <= b.m * Pow10(b.e - a.e)

\* a <= b on floats
DecLE(a, b) ==
    IF a.m <= 0 /\ b.m >= 0 THEN TRUE
    ELSE IF a.m >= 0 /\ b.m <= 0 THEN FALSE
    ELSE IF a.m > 0 THEN PosLE(a, b)
    ELSE PosLE(Num(-b.m, b.e), Num(-a.m, a.e))

\* str.upper on the symbols and on the characters of the model
Upper(s) ==
    CASE s = "btc" -> "BTC"
      [] s = "eth" -> "ETH"
      [] s = "doge" -> "DOGE"
      [] s = "nan" -> "NAN"
      [] s = "k" -> "K"
      [] s = "m" -> "M"
      [] s = "b" -> "B"
      [] s = "t" -> "T"
      [] OTHER -> s

BOUNDS ==
    ("BTC" :> <<Num(1, 1), Num(2, 6)>>) @@
    ("ETH" :> <<Num(1, 0), Num(2, 5)>>) @@
    ("SOL" :> <<Num(1, -3), Num(2, 4)>>) @@
    ("XRP" :> <<Num(1, -5), Num(1, 4)>>) @@
    ("BNB" :> <<Num(1, -2), Num(1, 5)>>)

DEFAULT_BOUNDS == <<Num(1, -12), Num(1, 9)>>

\* a str: the sequence of its characters
Str(s) == [k |-> "str", s |-> s]

\* the float nan, and the floats inf (sign 1) and -inf (sign -1)
NaN == [k |-> "nan"]
Inf(sign) == [k |-> "inf", sign |-> sign]

\* the ValueError of float() and int()
ValueError == [k |-> "ValueError"]

Whitespace == {" "}
Digits == {"0", "1", "2", "3", "4", "5", "6", "7", "8", "9"}

DigitVal(c) ==
    CASE c = "0" -> 0 [] c = "1" -> 1 [] c = "2" -> 2 [] c = "3" -> 3 [] c = "4" -> 4
      [] c = "5" -> 5 [] c = "6" -> 6 [] c = "7" -> 7 [] c = "8" -> 8 [] c = "9" -> 9

\* str.strip
RECURSIVE LStrip(_)
LStrip(s) == IF s # <<>> /\ Head(s) \in Whitespace THEN LStrip(Tail(s)) ELSE s

RECURSIVE RStrip(_)
RStrip(s) ==
    IF s # <<>> /\ s[Len(s)] \in Whitespace THEN RStrip(SubSeq(s, 1, Len(s) - 1)) ELSE s

Strip(s) == RStrip(LStrip(s))

\* str.replace(c, "") for every character c of cs
Without(s, cs) == SelectSeq(s, LAMBDA c : c \notin cs)

\* s[:-1]
Front(s) == SubSeq(s, 1, Len(s) - 1)

\* the place of the first character of s that is in cs, 0 when there is none
IndexOf(s, cs) ==
    IF \E i \in DOMAIN s : s[i] \in cs
    THEN CHOOSE i \in DOMAIN s : s[i] \in cs /\ \A j \in 1..(i - 1) : s[j] \notin cs
    ELSE 0

IsDigits(s) == \A i \in DOMAIN s : s[i] \in Digits

\* the number a string of digits writes
RECURSIVE ToInt(_)
ToInt(ds) == IF ds = <<>> THEN 0 ELSE 10 * ToInt(Front(ds)) + DigitVal(ds[Len(ds)])

\* str.lower on the letters of the words nan, inf and infinity
Lower(s) ==
    [i \in DOMAIN s |->
        CASE s[i] = "N" -> "n" [] s[i] = "A" -> "a" [] s[i] = "I" -> "i" [] s[i] = "F" -> "f"
          [] s[i] = "T" -> "t" [] s[i] = "Y" -> "y" [] OTHER -> s[i]]

\* what follows the sign of a text
Unsigned(t) == IF t # <<>> /\ t[1] \in {"-", "+"} THEN Tail(t) ELSE t
SignOf(t) == IF t # <<>> /\ t[1] = "-" THEN -1 ELSE 1

\* the part of s before place i and the part after it; all of s and nothing when i = 0
PartBefore(s, i) == IF i = 0 THEN s ELSE SubSeq(s, 1, i - 1)
PartAfter(s, i) == IF i = 0 THEN <<>> ELSE SubSeq(s, i + 1, Len(s))

\* the float of digits whole, a point, digits frac and, when hasE, an exponent expo
DecimalParts(sign, whole, frac, expo, hasE) ==
    IF /\ IsDigits(whole)
       /\ IsDigits(frac)
       /\ Len(whole) + Len(frac) > 0
       /\ hasE => (Unsigned(expo) # <<>> /\ IsDigits(Unsigned(expo)))
    THEN Norm(sign * ToInt(whole \o frac), SignOf(expo) * ToInt(Unsigned(expo)) - Len(frac))
    ELSE ValueError

\* the mantissa mant is split at its first point, which is at place dot
SplitPoint(sign, mant, dot, expo, hasE) ==
    DecimalParts(sign, PartBefore(mant, dot), PartAfter(mant, dot), expo, hasE)

\* the text after the sign is split at its first e or E, which is at place ePos
SplitExponent(sign, body, ePos) ==
    SplitPoint(sign, PartBefore(body, ePos), IndexOf(PartBefore(body, ePos), {"."}),
               PartAfter(body, ePos), ePos # 0)

\* the float of a trimmed text of the given sign, with body after the sign
FloatOfBody(sign, body) ==
    IF Lower(body) = <<"n", "a", "n">> THEN NaN
    ELSE IF Lower(body) \in {<<"i", "n", "f">>, <<"i", "n", "f", "i", "n", "i", "t", "y">>}
    THEN Inf(sign)
    ELSE SplitExponent(sign, body, IndexOf(body, {"e", "E"}))

FloatOfTrimmed(t) == FloatOfBody(SignOf(t), Unsigned(t))

\* float(text) of Python: surrounding whitespace, a sign, then nan, inf, infinity in
\* either case or digits with at most one point and an exponent after e or E
float(text) == FloatOfTrimmed(Strip(text))

IntOfBody(sign, body) ==
    IF body # <<>> /\ IsDigits(body) THEN Norm(sign * ToInt(body), 0) ELSE ValueError

IntOfTrimmed(t) == IntOfBody(SignOf(t), Unsigned(t))

\* int(text) of Python: surrounding whitespace, a sign, then digits
int(text) == IntOfTrimmed(Strip(text))

\* x * 10^k on floats
Times(x, k) == IF x.k = "num" THEN Norm(x.m, x.e + k) ELSE x

\* every suffix multiplying by 1e3
SuffixExp_thousands == ("K" :> 3) @@ ("M" :> 3) @@ ("B" :> 3) @@ ("T" :> 3)

\* the multipliers 1e3, 1e6, 1e9 and 1e12 of the suffixes, as powers of ten
SuffixExp == ("K" :> 3) @@ ("M" :> 6) @@ ("B" :> 9) @@ ("T" :> 12)

\* the characters re.sub(r"[^\d\.\-+eE]", "", s) keeps
KeptChars == Digits \cup {".", "-", "+", "e", "E"}

\* the second try of parse_numeric: float(s2) * mult, None when float raises
SecondTry(second, mult) == IF second # ValueError THEN Times(second, mult) ELSE NULL

\* the first try of parse_numeric, float(s) * mult, and what follows when float raises
FirstTry(first, s2, mult) ==
    IF first # ValueError THEN Times(first, mult)
    ELSE IF s2 = <<>> THEN NULL
    ELSE SecondTry(float(s2), mult)

\* s without suffix, and the power of ten of the suffix it had
ParseBody(s, mult) == FirstTry(float(s), SelectSeq(s, LAMBDA c : c \in KeptChars), mult)

\* s after the currency and percent signs are gone: a suffix is taken off
ParseCleaned(s) ==
    IF s # <<>> /\ Upper(s[Len(s)]) \in DOMAIN SuffixExp
    THEN ParseBody(Front(s), SuffixExp[Upper(s[Len(s)])])
    ELSE ParseBody(s, 0)

\* s after str(value).strip()
ParseTrimmed(s) == IF s = <<>> THEN NULL ELSE ParseCleaned(Without(s, {",", "$", "%"}))

parse_numeric(value) ==
    IF value = NULL THEN NULL
    ELSE IF value.k = "num" THEN Norm(value.m, value.e)
    ELSE IF value.k \in {"nan", "inf"} THEN value
    ELSE ParseTrimmed(Strip(value.s))

\* in_bounds that looks the symbol up as it is written
in_bounds_case_sensitive(symbol, price) ==
    LET b == IF symbol \in DOMAIN BOUNDS THEN BOUNDS[symbol] ELSE DEFAULT_BOUNDS
    IN  DecLE(b[1], price) /\ DecLE(price, b[2])

in_bounds(symbol, price) ==
    LET b == IF Upper(symbol) \in DOMAIN BOUNDS THEN BOUNDS[Upper(symbol)] ELSE DEFAULT_BOUNDS
    IN  DecLE(b[1], price) /\ DecLE(price, b[2])

-----------------------------------------------------------------------------
(* validate_prices *)

Window == 5

HasTsColumn(rows) == \E i \in DOMAIN rows : rows[i].ts # NoTs

\* number of clock reads made for the rows before row i
ReadsBefore(rows, i) == Cardinality({j \in 1..i : rows[j].ts = NoTs})

\* the ts column after normalisation; now is the first value the clock gives,
\* adv tells whether it advances between two reads of the call
NormalizeTs(rows, now, adv) ==
    LET has == HasTsColumn(rows)
    IN  Rows([i \in DOMAIN rows |->
            IF ~has THEN now
            ELSE IF rows[i].ts = NoTs THEN now + adv * (ReadsBefore(rows, i) - 1)
            ELSE rows[i].ts])

\* the last value the clock gave during NormalizeTs
ClockAfter(rows, now, adv) ==
    IF ~HasTsColumn(rows) \/ \A i \in DOMAIN rows : rows[i].ts # NoTs THEN now
    ELSE now + adv * (ReadsBefore(rows, Len(rows)) - 1)

\* what the clock can do between two reads of one call: stand still, or advance
ClockSteps(rows) ==
    IF HasTsColumn(rows) /\ ReadsBefore(rows, Len(rows)) >= 2 THEN {0, 1} ELSE {0}

BasicReason(price) ==
    IF price = NULL THEN "price_nan"
    ELSE IF DecLE(price, Num(0, 0)) THEN "price_nonpositive"
    ELSE NoReason

\* str(row.get("symbol", ""))
SymbolStr(symbol) ==
    CASE symbol = NoSymbol -> "nan"
      [] symbol = NumSymbol -> "123"
      [] OTHER -> symbol

\* mutant: the bounds check overwrites an earlier reason
check_bounds_overwrite(symbol, price, reason) ==
    IF price # NULL /\ ~in_bounds(Upper(SymbolStr(symbol)), price) THEN "out_of_bounds"
    ELSE reason

\* the bounds check made on every row, whatever reason the row has
check_bounds_unguarded(symbol, price, reason) ==
    IF price = NULL THEN "bounds_eval_error"
    ELSE IF ~in_bounds(Upper(SymbolStr(symbol)), price) THEN "out_of_bounds"
    ELSE reason

\* _check_bounds; float(row["price"]) raises on a price that is no number
check_bounds(symbol, price, reason) ==
    IF reason # NoReason THEN reason
    ELSE IF price = NULL THEN "bounds_eval_error"
    ELSE IF ~in_bounds(Upper(SymbolStr(symbol)), price) THEN "out_of_bounds"
    ELSE NoReason

\* a float in a column of the frame: nan is the missing value
Cell(x) == IF x = NaN THEN NULL ELSE x

\* the frame after the per-row checks
PerRowFrame(rows, now, adv) ==
    LET ts == NormalizeTs(rows, now, adv)
    IN  Rows([i \in DOMAIN rows |->
            LET price == Cell(parse_numeric(rows[i].price))
            IN  [symbol |-> rows[i].symbol,
                 price |-> price,
                 ts |-> ts[i],
                 source |-> rows[i].source,
                 invalid_reason |-> check_bounds(rows[i].symbol, price, BasicReason(price))]])

OkIdx(f) == {i \in DOMAIN f : f[i].invalid_reason = NoReason /\ f[i].price # NULL}

\* dup: the (ts, price) groups of ok that hold more than one symbol, NaN not counted
DupKeys(f) ==
    {<<f[i].ts, f[i].price>> : i \in
        {i \in OkIdx(f) : \E j \in OkIdx(f) :
            /\ f[j].ts = f[i].ts
            /\ f[j].price = f[i].price
            /\ f[j].symbol # f[i].symbol
            /\ f[i].symbol # NoSymbol
            /\ f[j].symbol # NoSymbol}}

\* mutant: the rows of mark_idx get the reason whatever they had
CollisionPass_overwrite(f) ==
    LET dup == DupKeys(f)
        mark_idx == 1..Cardinality({i \in DOMAIN f : <<f[i].ts, f[i].price>> \in dup})
    IN  Rows([i \in DOMAIN f |->
            IF i \in mark_idx
            THEN [f[i] EXCEPT !.invalid_reason = "x_symbol_same_price"]
            ELSE f[i]])

\* mark_idx: the index of dup.merge(df), a fresh 0..n-1 range, n the number of
\* rows of df whose (ts, price) is in dup (rows are numbered from 1 here)
MarkIdx(f) ==
    LET dup == DupKeys(f)
    IN  1..Cardinality({i \in DOMAIN f : <<f[i].ts, f[i].price>> \in dup})

CollisionPass(f) ==
    LET mark_idx == MarkIdx(f)
    IN  Rows([i \in DOMAIN f |->
            IF i \in mark_idx /\ f[i].invalid_reason = NoReason
            THEN [f[i] EXCEPT !.invalid_reason = "x_symbol_same_price"]
            ELSE f[i]])

SymbolsOf(f) == {f[i].symbol : i \in DOMAIN f}

\* position order of df.sort_values(["symbol", "ts"]) inside one symbol (stable)
Before(f, j, i) == f[j].ts < f[i].ts \/ (f[j].ts = f[i].ts /\ j < i)

\* g: the rows of one symbol in sorted order
SortedGroup(f, sym) ==
    LET I == {i \in DOMAIN f : f[i].symbol = sym}
    IN  Rows([k \in 1..Cardinality(I) |->
            CHOOSE i \in I : Cardinality({j \in I : Before(f, j, i)}) = k - 1])

NotNull(p) == p # NULL

\* g["price"].dropna().values
GroupPrices(f, sym) ==
    LET g == SortedGroup(f, sym)
    IN  SelectSeq([k \in DOMAIN g |-> f[g[k]].price], NotNull)

\* mutant: the tail is compared without asking for Window prices
IsConstantTail_short(prices) ==
    /\ Len(prices) >= Window - 1
    /\ Cardinality({prices[k] : k \in (Len(prices) - Window + 2)..Len(prices)}) = 1

IsConstantTail(prices) ==
    /\ Len(prices) >= Window
    /\ Cardinality({prices[k] : k \in (Len(prices) - Window + 1)..Len(prices)}) = 1

\* sort_values raises on a column symbol that mixes int and str, inside the try
SortRaises(f) ==
    NumSymbol \in SymbolsOf(f) /\ SymbolsOf(f) \ {NumSymbol, NoSymbol} # {}

\* groupby("symbol") leaves the rows without a symbol out
flagged_symbols(f) ==
    IF SortRaises(f) THEN {}
    ELSE {sym \in SymbolsOf(f) \ {NoSymbol} : IsConstantTail(GroupPrices(f, sym))}

\* mutant: the flagged symbols are left out
NeedsFallback_invalid_only(f, flagged) ==
    {f[i].symbol : i \in {i \in DOMAIN f : f[i].invalid_reason # NoReason}}

NeedsFallback(f, flagged) ==
    ({f[i].symbol : i \in {i \in DOMAIN f : f[i].invalid_reason # NoReason}} \ {NoSymbol})
        \cup flagged

IsClean(r) == r.invalid_reason = NoReason

\* mutant: the rows of the flagged symbols are dropped as well
CleanedRows_without_flagged(f) ==
    LET flagged == flagged_symbols(f)
        Kept(r) == IsClean(r) /\ r.symbol \notin flagged
    IN  SelectSeq(f, Kept)

CleanedRows(f) == SelectSeq(f, IsClean)

\* pd.to_datetime raises on a value of the ts column, outside every try
TsRaises(rows) == \E i \in DOMAIN rows : rows[i].ts = BadTs

validate_prices(rows, now, adv) ==
    IF rows = <<>>
    THEN [df |-> <<>>, base |-> <<>>, cleaned |-> <<>>,
          needs_fallback |-> {}, reasons |-> <<>>, clock |-> now, raised |-> FALSE]
    ELSE IF TsRaises(rows)
    THEN [df |-> <<>>, base |-> <<>>, cleaned |-> <<>>,
          needs_fallback |-> {}, reasons |-> <<>>, clock |-> now, raised |-> TRUE]
    ELSE LET f0 == PerRowFrame(rows, now, adv)
             f == CollisionPass(f0)
             flagged == flagged_symbols(f)
         IN  [df |-> f,
              base |-> Rows([i \in DOMAIN f0 |-> f0[i].invalid_reason]),
              cleaned |-> CleanedRows(f),
              needs_fallback |-> NeedsFallback(f, flagged),
              reasons |-> [sym \in flagged |-> "constant_price_last_5"],
              clock |-> ClockAfter(rows, now, adv),
              raised |-> FALSE]


-----------------------------------------------------------------------------
(* Input batches *)

FeedRow(symbol, price, ts) == [symbol |-> symbol, price |-> price, ts |-> ts, source |-> "feed"]

BatchTs == {NoTs, 0, 1}

\* rows that pass or fail the bounds check, to collide on (ts, price)
CollisionRows ==
    {FeedRow(s, p, t) : s \in {"BTC", "ETH", "DOGE"}, p \in {Num(5, 0), Num(1, 2)}, t \in BatchTs}
\* rows of every per-row outcome, with symbols that differ in case only
MixedRows ==
    {FeedRow(s, p, t) : s \in {"BTC", "btc", "ETH"},
                        p \in {NULL, Num(-1, 0), Num(5, 0), Num(1, 2)}, t \in BatchTs}

\* long batches of one symbol, with at most one row (the j-th) of another symbol
StuckPrices == {NULL, Num(5, 0), Num(1, 2)}
TsPatterns == {"asc", "desc", "flat"}
PatternTs(pat, i, n) ==
    CASE pat = "asc" -> i
      [] pat = "desc" -> n - i
      [] OTHER -> 0
StuckBatch(n, ps, j, pat) ==
    Rows([i \in 1..n |-> FeedRow(IF i = j THEN "ETH" ELSE "BTC", ps[i], PatternTs(pat, i, n))])

IsCollisionBatch(rows) == \E n \in 0..MaxRows : rows \in [1..n -> CollisionRows]
IsMixedBatch(rows) == \E n \in 0..MaxMixedRows : rows \in [1..n -> MixedRows]
IsStuckBatch(rows) ==
    \E n \in (Window - 1)..MaxStuckRows :
        \E ps \in [1..n -> StuckPrices], j \in 0..n, pat \in TsPatterns :
            rows = StuckBatch(n, ps, j, pat)

-----------------------------------------------------------------------------
(* A call of validate_prices *)

\* the locals of the three methods before any of them has run
NothingValidated ==
    /\ clock = ClockBase
    /\ df = <<>>
    /\ base_reason = <<>>
    /\ cleaned = <<>>
    /\ needs_fallback = {}
    /\ reasons = <<>>
    /\ todo = {}
    /\ cur = ""
    /\ pidx = 0
    /\ tried = <<>>
    /\ results = <<>>
    /\ history = <<>>
    /\ fb_cleaned = <<>>
    /\ blocked = {}
    /\ run = 1

\* no call of analyze_trends is under way
NothingAnalysed ==
    /\ coin = ""
    /\ risk_level = "medium"
    /\ blocked_arg = [none |-> TRUE, syms |-> {}]
    /\ data = <<>>
    /\ strategy = <<>>

\* no call of a pure function is under way
NothingCalled ==
    /\ args = <<>>
    /\ ret = <<>>

\* no scraper is at work
NothingScraped ==
    /\ yf_symbols = <<>>
    /\ yf_result = <<>>
    /\ yf_calls = <<>>
    /\ retry_count = 0
    /\ retry_delay = 0
    /\ attempt = 0
    /\ gets = <<>>
    /\ slept = <<>>

NothingComputed == NothingValidated /\ NothingAnalysed /\ NothingCalled /\ NothingScraped

\* validate_prices called on a batch of stamped and unstamped rows of equal prices
InitCollision ==
    /\ pc = "validate"
    /\ IsCollisionBatch(raw_rows)
    /\ prefer = "coingecko"
    /\ available = {}
    /\ requested = {}
    /\ NothingComputed

\* validate_prices called on a batch of null, non-positive and out-of-bounds prices
InitReasons ==
    /\ pc = "validate"
    /\ IsMixedBatch(raw_rows)
    /\ prefer = "coingecko"
    /\ available = {}
    /\ requested = {}
    /\ NothingComputed

\* validate_prices called on a batch with a history of one symbol
InitStuck ==
    /\ pc = "validate"
    /\ IsStuckBatch(raw_rows)
    /\ prefer = "coingecko"
    /\ available = {}
    /\ requested = {}
    /\ NothingComputed

ValidateCall ==
    /\ pc = "validate"
    /\ \E adv \in ClockSteps(raw_rows) :
        LET v == validate_prices(raw_rows, clock, adv)
        IN  /\ df' = v.df
            /\ base_reason' = v.base
            /\ cleaned' = v.cleaned
            /\ needs_fallback' = v.needs_fallback
            /\ reasons' = v.reasons
            /\ clock' = v.clock
            /\ pc' = IF v.raised THEN "raised" ELSE "validated"
    /\ UNCHANGED <<run, analysis, pure, scrapers, raw_rows, prefer, available, requested, todo, cur, pidx, tried,
                   results, history, fb_cleaned, blocked>>

\* rows with and without a str symbol, with numbers, texts and nothing for a price
CheckRows ==
    {FeedRow(symbol, price, 0) :
        symbol \in {"BTC", "ETH", NoSymbol, NumSymbol},
        price \in {NULL, Num(-1, 0), Num(5, 0), Str(<<"N", "A", "N">>)}}

IsCheckBatch(rows) == \E n \in 0..MaxCheckRows : rows \in [1..n -> CheckRows]

\* validate_prices called on a batch whose symbols may be missing or no str
InitChecks ==
    /\ pc = "validate"
    /\ IsCheckBatch(raw_rows)
    /\ prefer = "coingecko"
    /\ available = {}
    /\ requested = {}
    /\ NothingComputed

NextValidate == ValidateCall

SpecCollision == InitCollision /\ [][NextValidate]_vars

SpecReasons == InitReasons /\ [][NextValidate]_vars

SpecStuck == InitStuck /\ [][NextValidate]_vars

SpecChecks == InitChecks /\ [][NextValidate]_vars


-----------------------------------------------------------------------------
(* get_fallback_prices *)

KnownProviders == {"coingecko", "coinmarketcap"}

\* mutant: the provider list is built in the opposite order
providers_reversed(pref, avail) ==
    LET IfThere(name) == IF name \in avail THEN <<name>> ELSE <<>>
    IN  IF pref = "coingecko"
        THEN IfThere("coinmarketcap") \o IfThere("coingecko")
        ELSE IfThere("coingecko") \o IfThere("coinmarketcap")

\* providers: the scrapers that could be imported, the preferred one first
providers(pref, avail) ==
    LET IfThere(name) == IF name \in avail THEN <<name>> ELSE <<>>
    IN  IF pref = "coingecko"
        THEN IfThere("coingecko") \o IfThere("coinmarketcap")
        ELSE IfThere("coinmarketcap") \o IfThere("coingecko")

FallbackTag(name) ==
    CASE name = "coingecko" -> "coingecko_fallback"
      [] name = "coinmarketcap" -> "coinmarketcap_fallback"

\* what one provider call can give: an exception, no record for the symbol,
\* or a record; price is what the record holds under the key price (absent,
\* zero, small or large), alt what it holds under the key current_price
ProviderPrices == {NULL, Num(0, 0), Num(5, 0), Num(5, 4)}
AltKeyPrices == {Num(5, 4)}
Outcomes ==
    {[kind |-> "raise", price |-> NULL, alt |-> NULL],
     [kind |-> "none", price |-> NULL, alt |-> NULL]}
        \cup {[kind |-> "rec", price |-> p, alt |-> NULL] : p \in ProviderPrices}
        \cup {[kind |-> "rec", price |-> NULL, alt |-> q] : q \in AltKeyPrices}

\* mutant: an exception of a provider call leaves the function
after_call_uncaught(out) ==
    CASE out.kind = "rec" -> "break"
      [] out.kind = "none" -> "next"
      [] out.kind = "raise" -> "propagate"

\* how the inner loop goes on after one provider call
after_call(out) ==
    CASE out.kind = "rec" -> "break"
      [] out.kind = "none" -> "next"
      [] out.kind = "raise" -> "next"

fallback_row(sym, out, name, now) ==
    [symbol |-> sym, price |-> parse_numeric(out.price), ts |-> now, source |-> FallbackTag(name)]

\* mutant: a row is kept as soon as its price is not None
keep_row_nonnull(row) == row.price # NULL

\* the test of a built row before results.append
keep_row(row) == row.price # NULL /\ ~DecLE(row.price, Num(0, 0))

FbEnter ==
    /\ pc = "fb_entry"
    /\ results' = <<>>
    /\ history' = <<>>
    /\ IF requested = {}
       THEN todo' = {} /\ pc' = "fb_return"
       ELSE todo' = {Upper(s) : s \in requested} /\ pc' = "fb_loop"
    /\ UNCHANGED <<run, analysis, pure, scrapers, raw_rows, clock, df, base_reason, cleaned, needs_fallback, reasons,
                   prefer, available, requested, cur, pidx, tried, fb_cleaned, blocked>>

\* the outer loop takes the next symbol of the set, in no fixed order
FbNextSymbol ==
    /\ pc = "fb_loop"
    /\ \E sym \in todo :
        /\ cur' = sym
        /\ todo' = todo \ {sym}
        /\ tried' = <<>>
        /\ pidx' = 1
        /\ IF providers(prefer, available) = <<>>
           THEN history' = history @@ (sym :> <<>>) /\ pc' = "fb_loop"
           ELSE history' = history /\ pc' = "fb_call"
    /\ UNCHANGED <<run, analysis, pure, scrapers, raw_rows, clock, df, base_reason, cleaned, needs_fallback, reasons,
                   prefer, available, requested, results, fb_cleaned, blocked>>

\* one provider call for cur, and what follows it up to the next call
FbCall ==
    /\ pc = "fb_call"
    /\ \E out \in Outcomes :
        LET provs == providers(prefer, available)
            name == provs[pidx]
            log == Append(tried, [name |-> name, kind |-> out.kind,
                                  price |-> out.price, alt |-> out.alt])
            next == after_call(out)
        IN  /\ tried' = log
            /\ CASE next = "break" ->
                    \E tick \in {0, 1} :
                        LET row == fallback_row(cur, out, name, clock + tick)
                        IN  /\ clock' = clock + tick
                            /\ results' = IF keep_row(row) THEN Append(results, row) ELSE results
                            /\ history' = history @@ (cur :> log)
                            /\ pidx' = pidx
                            /\ pc' = "fb_loop"
                 [] next = "next" /\ pidx < Len(provs) ->
                    /\ pidx' = pidx + 1
                    /\ pc' = "fb_call"
                    /\ UNCHANGED <<clock, results, history>>
                 [] next = "next" /\ pidx = Len(provs) ->
                    /\ history' = history @@ (cur :> log)
                    /\ pc' = "fb_loop"
                    /\ UNCHANGED <<clock, results, pidx>>
                 [] next = "propagate" ->
                    /\ pc' = "raised"
                    /\ UNCHANGED <<clock, results, history, pidx>>
    /\ UNCHANGED <<run, analysis, pure, scrapers, raw_rows, df, base_reason, cleaned, needs_fallback, reasons,
                   prefer, available, requested, todo, cur, fb_cleaned, blocked>>

FbReturn ==
    /\ pc = "fb_loop"
    /\ todo = {}
    /\ pc' = "fb_return"
    /\ UNCHANGED <<run, analysis, pure, scrapers, raw_rows, clock, df, base_reason, cleaned, needs_fallback, reasons,
                   prefer, available, requested, todo, cur, pidx, tried, results, history,
                   fb_cleaned, blocked>>

RequestSymbols == {"BTC", "btc", "ETH"}

InitFallback ==
    /\ pc = "fb_entry"
    /\ raw_rows = <<>>
    /\ prefer \in KnownProviders
    /\ available \in SUBSET KnownProviders
    /\ requested \in SUBSET RequestSymbols
    /\ NothingComputed

NextFallback == FbEnter \/ FbNextSymbol \/ FbCall \/ FbReturn

SpecFallback == InitFallback /\ [][NextFallback]_vars

-----------------------------------------------------------------------------
(* process_trading_rows *)

StartsWithConstantPrice(r) == r = "constant_price_last_5"

\* mutant: nothing is blocked when the cleaned frame is empty
still_blocked_unless_empty(rows, needs) ==
    IF rows # <<>>
    THEN {s \in needs : s \notin SymbolsOf(rows)}
    ELSE {}

\* mutant: the symbols without a row are blocked under their upper-case name
still_blocked_upper(rows, needs) ==
    IF rows # <<>>
    THEN {Upper(s) : s \in {s \in needs : s \notin SymbolsOf(rows)}}
    ELSE {Upper(s) : s \in needs}

\* still_blocked: the symbols of needs_fallback without a row in cleaned
still_blocked(rows, needs) ==
    IF rows # <<>>
    THEN {s \in needs : s \notin SymbolsOf(rows)}
    ELSE needs

\* mutant: the flagged symbols are not added
blocked_symbols_unflagged(rows, needs, rs) ==
    still_blocked(rows, needs)

blocked_symbols(rows, needs, rs) ==
    still_blocked(rows, needs) \cup {s \in DOMAIN rs : StartsWithConstantPrice(rs[s])}

\* mutant: the resolver is called for every symbol of the batch
ProcessStart_asks_all ==
    /\ pc = "process"
    /\ \E adv \in ClockSteps(raw_rows) :
        LET v == validate_prices(raw_rows, clock, adv)
        IN  /\ df' = v.df
            /\ base_reason' = v.base
            /\ cleaned' = v.cleaned
            /\ needs_fallback' = v.needs_fallback
            /\ reasons' = v.reasons
            /\ clock' = v.clock
            /\ requested' = SymbolsOf(v.df)
            /\ pc' = IF v.raised THEN "raised" ELSE "fb_entry"
    /\ UNCHANGED <<run, analysis, pure, scrapers, raw_rows, prefer, available, todo, cur, pidx, tried, results,
                   history, fb_cleaned, blocked>>

\* the first validation pass, up to the call of get_fallback_prices
ProcessStart ==
    /\ pc = "process"
    /\ \E adv \in ClockSteps(raw_rows) :
        LET v == validate_prices(raw_rows, clock, adv)
        IN  /\ df' = v.df
            /\ base_reason' = v.base
            /\ cleaned' = v.cleaned
            /\ needs_fallback' = v.needs_fallback
            /\ reasons' = v.reasons
            /\ clock' = v.clock
            /\ IF v.raised
               THEN requested' = requested /\ pc' = "raised"
               ELSE IF v.needs_fallback # {}
               THEN requested' = v.needs_fallback /\ pc' = "fb_entry"
               ELSE requested' = requested /\ pc' = "no_fallback"
    /\ UNCHANGED <<run, analysis, pure, scrapers, raw_rows, prefer, available, todo, cur, pidx, tried, results,
                   history, fb_cleaned, blocked>>

\* mutant: the fallback rows are appended as they came, without a second validation
ProcessFinish_unvalidated ==
    /\ pc \in {"fb_return", "no_fallback"}
    /\ LET fb == Rows([k \in DOMAIN results |->
                    [symbol |-> results[k].symbol, price |-> results[k].price,
                     ts |-> results[k].ts, source |-> results[k].source,
                     invalid_reason |-> NoReason]])
           all == cleaned \o fb
       IN  /\ fb_cleaned' = fb
           /\ cleaned' = all
           /\ blocked' = blocked_symbols(all, needs_fallback, reasons)
    /\ pc' = "done"
    /\ UNCHANGED <<run, analysis, pure, scrapers, raw_rows, clock, df, base_reason, needs_fallback, reasons, prefer,
                   available, requested, todo, cur, pidx, tried, results, history>>

\* mutant: the accepted fallback rows are put before the rows of the first pass
ProcessFinish_prepends ==
    /\ pc \in {"fb_return", "no_fallback"}
    /\ LET fb_rows == results
           fb == IF fb_rows # <<>>
                 THEN validate_prices(fb_rows, clock, 0).cleaned
                 ELSE <<>>
           all == fb \o cleaned
       IN  /\ fb_cleaned' = fb
           /\ cleaned' = all
           /\ blocked' = blocked_symbols(all, needs_fallback, reasons)
    /\ pc' = "done"
    /\ UNCHANGED <<run, analysis, pure, scrapers, raw_rows, clock, df, base_reason, needs_fallback, reasons, prefer,
                   available, requested, todo, cur, pidx, tried, results, history>>

\* from the return of get_fallback_prices (or from the skipped call) to the end
ProcessFinish ==
    /\ pc \in {"fb_return", "no_fallback"}
    /\ LET fb_rows == results
           fb == IF fb_rows # <<>>
                 THEN validate_prices(fb_rows, clock, 0).cleaned
                 ELSE <<>>
           all == cleaned \o fb
       IN  /\ fb_cleaned' = fb
           /\ cleaned' = all
           /\ blocked' = blocked_symbols(all, needs_fallback, reasons)
    /\ pc' = "done"
    /\ UNCHANGED <<run, analysis, pure, scrapers, raw_rows, clock, df, base_reason, needs_fallback, reasons, prefer,
                   available, requested, todo, cur, pidx, tried, results, history>>

\* batches of the pipeline runs: short ones of every kind, and runs of one
\* price for BTC with at most one ETH row among them
PipelineRows == {FeedRow(s, p, 0) : s \in {"BTC", "btc", "ETH"}, p \in {NULL, Num(1, 2)}}
IsShortBatch(rows) == \E n \in 0..MaxMixedRows : rows \in [1..n -> PipelineRows]
IsConstantBatch(rows) ==
    \E n \in Window..MaxStuckRows :
        \E p \in {Num(5, 0), Num(1, 2)}, j \in 0..n :
            rows = StuckBatch(n, [i \in 1..n |-> p], j, "asc")

InitPipeline ==
    /\ pc = "process"
    /\ IsShortBatch(raw_rows) \/ IsConstantBatch(raw_rows)
    /\ prefer = "coingecko"
    /\ available \in SUBSET KnownProviders
    /\ requested = {}
    /\ NothingComputed

NextPipeline == ProcessStart \/ FbEnter \/ FbNextSymbol \/ FbCall \/ FbReturn \/ ProcessFinish

SpecPipeline == InitPipeline /\ [][NextPipeline]_vars

\* batches whose rows miss the timestamp, or carry one that cannot be parsed,
\* next to null and non-positive prices
DirtyRows ==
    {FeedRow(s, p, t) : s \in {"BTC", "ETH"},
                        p \in {NULL, Num(-1, 0), Num(1, 2)}, t \in {NoTs, 0, BadTs}}
IsDirtyBatch(rows) == \E n \in 0..MaxMixedRows : rows \in [1..n -> DirtyRows]

InitDirtyValidate ==
    /\ pc = "validate"
    /\ IsDirtyBatch(raw_rows)
    /\ prefer = "coingecko"
    /\ available = {}
    /\ requested = {}
    /\ NothingComputed

SpecDirtyValidate == InitDirtyValidate /\ [][NextValidate]_vars

InitDirtyPipeline ==
    /\ pc = "process"
    /\ IsDirtyBatch(raw_rows)
    /\ prefer = "coingecko"
    /\ available \in SUBSET KnownProviders
    /\ requested = {}
    /\ NothingComputed

SpecDirtyPipeline == InitDirtyPipeline /\ [][NextPipeline]_vars

-----------------------------------------------------------------------------
(* process_trading_rows called again on the rows it returned *)

\* the caller hands the records of the returned frame, the column
\* invalid_reason among them, to a second call; it does so after a run that
\* flagged no stuck-feed symbol
Rerun ==
    /\ pc = "done"
    /\ run = 1
    /\ DOMAIN reasons = {}
    /\ raw_rows' = cleaned
    /\ run' = 2
    /\ pc' = "process"
    /\ df' = <<>>
    /\ base_reason' = <<>>
    /\ cleaned' = <<>>
    /\ needs_fallback' = {}
    /\ reasons' = <<>>
    /\ requested' = {}
    /\ todo' = {}
    /\ cur' = ""
    /\ pidx' = 0
    /\ tried' = <<>>
    /\ results' = <<>>
    /\ history' = <<>>
    /\ fb_cleaned' = <<>>
    /\ blocked' = {}
    /\ UNCHANGED <<analysis, pure, scrapers, clock, prefer, available>>

\* histories of BTC in timestamp order, every price in bounds or below them
RerunPrices == {Num(5, 0), Num(1, 2)}
IsHistoryBatch(rows) ==
    \E n \in Window..MaxStuckRows :
        \E ps \in [1..n -> RerunPrices] : rows = StuckBatch(n, ps, 0, "asc")

InitRerun ==
    /\ pc = "process"
    /\ IsShortBatch(raw_rows) \/ IsHistoryBatch(raw_rows)
    /\ prefer = "coingecko"
    /\ available \in SUBSET KnownProviders
    /\ requested = {}
    /\ NothingComputed

NextRerun ==
    ProcessStart \/ FbEnter \/ FbNextSymbol \/ FbCall \/ FbReturn \/ ProcessFinish \/ Rerun

SpecRerun == InitRerun /\ [][NextRerun]_vars

-----------------------------------------------------------------------------
(* analyze_trends of python/agent/analysis.py *)

Coins == {"BTC", "ETH", "XRP"}

\* the last value of a column: a price, or NoValue for a column without rows
NoValue == 0
LastValues == {NoValue, 100, 25000}

\* data: the columns of the frame, each with its last value
Frames == UNION {[cols -> LastValues] : cols \in SUBSET Coins}

\* blocked_symbols: None, or a set of symbols
BlockedArgs ==
    {[none |-> TRUE, syms |-> {}]} \cup {[none |-> FALSE, syms |-> S] : S \in SUBSET Coins}

RiskLevels == {"low", "medium", "high", "extreme"}

\* blocked_symbols or set()
OrEmptySet(arg) == IF arg.none THEN {} ELSE arg.syms

\* risk_multipliers.get(risk_level, 0.03), in hundredths
multiplier(level) ==
    CASE level = "low" -> 1
      [] level = "medium" -> 3
      [] level = "high" -> 5
      [] OTHER -> 3

Sentinel(c) == [coin |-> c, blocked |-> TRUE, reason |-> "data_quality_blocked"]

\* the dict the call builds from the last price of the coin
Recommendation(frame, c, level) ==
    LET price_now == frame[c]
    IN  [coin |-> c,
         current_price |-> Norm(price_now, 0),
         forecast_price |-> Norm(price_now, 0),
         stop_loss |-> Norm(price_now * (100 - multiplier(level)), -2),
         take_profit |-> Norm(price_now * (100 + multiplier(level)), -2),
         risk_level |-> level]

\* mutant: the column is looked up before the blocked set
analyze_trends_column_first(frame, c, level, arg) ==
    IF c \notin DOMAIN frame THEN [raised |-> "ValueError"]
    ELSE IF c \in OrEmptySet(arg) THEN [raised |-> "no", value |-> Sentinel(c)]
    ELSE IF frame[c] = NoValue THEN [raised |-> "IndexError"]
    ELSE [raised |-> "no", value |-> Recommendation(frame, c, level)]

analyze_trends(frame, c, level, arg) ==
    IF c \in OrEmptySet(arg) THEN [raised |-> "no", value |-> Sentinel(c)]
    ELSE IF c \notin DOMAIN frame THEN [raised |-> "ValueError"]
    ELSE IF frame[c] = NoValue THEN [raised |-> "IndexError"]
    ELSE [raised |-> "no", value |-> Recommendation(frame, c, level)]

AnalyzeCall ==
    /\ pc = "analyze"
    /\ LET r == analyze_trends(data, coin, risk_level, blocked_arg)
       IN  IF r.raised = "no"
           THEN strategy' = r.value /\ pc' = "analyzed"
           ELSE strategy' = strategy /\ pc' = "analyze_raised"
    /\ UNCHANGED <<run, pure, scrapers, raw_rows, clock, df, base_reason, cleaned, needs_fallback, reasons,
                   prefer, available, requested, todo, cur, pidx, tried, results, history,
                   fb_cleaned, blocked, coin, risk_level, blocked_arg, data>>

InitAnalyze ==
    /\ pc = "analyze"
    /\ coin \in Coins
    /\ risk_level \in RiskLevels
    /\ blocked_arg \in BlockedArgs
    /\ data \in Frames
    /\ strategy = <<>>
    /\ raw_rows = <<>>
    /\ prefer = "coingecko"
    /\ available = {}
    /\ requested = {}
    /\ NothingValidated
    /\ NothingCalled
    /\ NothingScraped

NextAnalyze == AnalyzeCall

SpecAnalyze == InitAnalyze /\ [][NextAnalyze]_vars

-----------------------------------------------------------------------------
(* A call of in_bounds *)

BoundsSymbols == {"BTC", "btc", "ETH", "eth", "SOL", "XRP", "BNB", "DOGE", "doge"}

\* prices at, just inside and just outside the ends of the ranges of BOUNDS and DEFAULT_BOUNDS
BoundsPrices ==
    {Num(-5, 0), Num(0, 0), Num(9, -13), Num(1, -12), Num(999, -3), Num(1, 0), Num(9999, -3),
     Num(1, 1), Num(5, 2), Num(2, 5), Num(2001, 2), Num(2, 6), Num(2001, 3), Num(1, 9),
     Num(1001, 6)}

\* nothing but a call of a pure function is under way
OnlyCalling ==
    /\ raw_rows = <<>>
    /\ prefer = "coingecko"
    /\ available = {}
    /\ requested = {}
    /\ NothingValidated
    /\ NothingAnalysed
    /\ NothingScraped

InBoundsCall ==
    /\ pc = "in_bounds"
    /\ ret' = in_bounds(args.symbol, args.price)
    /\ pc' = "in_bounds_done"
    /\ UNCHANGED <<args, run, analysis, scrapers, raw_rows, clock, df, base_reason, cleaned,
                   needs_fallback, reasons, prefer, available, requested, todo, cur, pidx, tried,
                   results, history, fb_cleaned, blocked>>

InitBounds ==
    /\ pc = "in_bounds"
    /\ \E symbol \in BoundsSymbols, price \in BoundsPrices :
          args = [symbol |-> symbol, price |-> price]
    /\ ret = <<>>
    /\ OnlyCalling

NextBounds == InBoundsCall

SpecBounds == InitBounds /\ [][NextBounds]_vars

-----------------------------------------------------------------------------
(* YahooFinanceScraper._parse_value of scrapers/yahoo_finance.py *)

\* every suffix multiplying by 1_000
multipliers_thousands == ("K" :> 3) @@ ("M" :> 3) @@ ("B" :> 3) @@ ("T" :> 3)

\* the multipliers 1_000 .. 1_000_000_000_000 of _parse_value, as powers of ten
multipliers == ("K" :> 3) @@ ("M" :> 6) @@ ("B" :> 9) @@ ("T" :> 12)

\* the except ValueError of _parse_value
NoneOnError(x) == IF x = ValueError THEN NULL ELSE x

\* text is value_text trimmed and without its commas
ParseBare(text) ==
    NoneOnError(
        IF text # <<>> /\ text[Len(text)] \in DOMAIN multipliers
        THEN Times(float(Front(text)), multipliers[text[Len(text)]])
        ELSE IF "." \in {text[i] : i \in DOMAIN text} THEN float(text)
        ELSE int(text))

_parse_value(value_text) ==
    IF value_text = NULL THEN NULL
    ELSE IF value_text.s = <<>> \/ Strip(value_text.s) = <<"N", "/", "A">> THEN NULL
    ELSE ParseBare(Without(Strip(value_text.s), {","}))

\* the characters of the texts given to _parse_value
ValueChars == {"1", ".", ",", "-", "e", "K", "M", "N", "A", "/", " "}

ParseValueCall ==
    /\ pc = "_parse_value"
    /\ ret' = _parse_value(args.value_text)
    /\ pc' = "_parse_value_done"
    /\ UNCHANGED <<args, run, analysis, scrapers, raw_rows, clock, df, base_reason, cleaned,
                   needs_fallback, reasons, prefer, available, requested, todo, cur, pidx, tried,
                   results, history, fb_cleaned, blocked>>

InitParseValue ==
    /\ pc = "_parse_value"
    /\ \/ args = [value_text |-> NULL]
       \/ \E n \in 0..MaxValueLen : \E s \in [1..n -> ValueChars] :
             args = [value_text |-> Str(s)]
    /\ ret = <<>>
    /\ OnlyCalling

NextParseValue == ParseValueCall

SpecParseValue == InitParseValue /\ [][NextParseValue]_vars

-----------------------------------------------------------------------------
(* A call of parse_numeric *)

\* the characters of the texts given to parse_numeric
ParseChars == {"1", "5", ".", ",", "$", "-", "e", "K", "m", "N", "A", "/", " "}

\* the int and float arguments given to parse_numeric
ParseNumbers == {Num(0, 0), Num(5, 0), Num(-15, -1), Num(4200, 1), NaN}

ParseNumericCall ==
    /\ pc = "parse_numeric"
    /\ ret' = parse_numeric(args.value)
    /\ pc' = "parse_numeric_done"
    /\ UNCHANGED <<args, run, analysis, scrapers, raw_rows, clock, df, base_reason, cleaned,
                   needs_fallback, reasons, prefer, available, requested, todo, cur, pidx, tried,
                   results, history, fb_cleaned, blocked>>

InitParse ==
    /\ pc = "parse_numeric"
    /\ \/ args = [value |-> NULL]
       \/ \E x \in ParseNumbers : args = [value |-> x]
       \/ \E n \in 0..MaxTextLen : \E s \in [1..n -> ParseChars] : args = [value |-> Str(s)]
    /\ ret = <<>>
    /\ OnlyCalling

NextParse == ParseNumericCall

SpecParse == InitParse /\ [][NextParse]_vars

-----------------------------------------------------------------------------
(* YahooFinanceScraper.scrape of scrapers/yahoo_finance.py *)

ScrapeSymbols == {"AAPL", "MSFT"}

\* the prices scrape_symbol finds on a page
ScrapedPrices == {NULL, Num(15, 1)}

\* the messages of the exceptions scrape_symbol raises
ScrapeErrors == {"timeout"}

\* the symbol the loop of scrape is at
ScrapeAt == yf_symbols[Len(yf_calls) + 1]

\* one turn of the loop: scrape_symbol returns its mapping
ScrapeSymbolReturns ==
    /\ pc = "scrape"
    /\ Len(yf_calls) < Len(yf_symbols)
    /\ \E price \in ScrapedPrices :
          yf_result' = (ScrapeAt :> [symbol |-> ScrapeAt, price |-> price]) @@ yf_result
    /\ yf_calls' = Append(yf_calls, [symbol |-> ScrapeAt, raised |-> FALSE])
    /\ UNCHANGED <<pc, yf_symbols, run, analysis, pure, retry_count, retry_delay, attempt,
                   gets, slept, raw_rows, clock, df, base_reason,
                   cleaned, needs_fallback, reasons, prefer, available, requested, todo, cur, pidx,
                   tried, results, history, fb_cleaned, blocked>>

\* one turn of the loop that ends scrape when scrape_symbol raises
ScrapeSymbolRaises_stops ==
    /\ pc = "scrape"
    /\ Len(yf_calls) < Len(yf_symbols)
    /\ \E e \in ScrapeErrors : yf_result' = (ScrapeAt :> [error |-> e]) @@ yf_result
    /\ yf_calls' = Append(yf_calls, [symbol |-> ScrapeAt, raised |-> TRUE])
    /\ pc' = "scrape_done"
    /\ UNCHANGED <<yf_symbols, run, analysis, pure, retry_count, retry_delay, attempt,
                   gets, slept, raw_rows, clock, df, base_reason,
                   cleaned, needs_fallback, reasons, prefer, available, requested, todo, cur, pidx,
                   tried, results, history, fb_cleaned, blocked>>

\* one turn of the loop: scrape_symbol raises an Exception
ScrapeSymbolRaises ==
    /\ pc = "scrape"
    /\ Len(yf_calls) < Len(yf_symbols)
    /\ \E e \in ScrapeErrors : yf_result' = (ScrapeAt :> [error |-> e]) @@ yf_result
    /\ yf_calls' = Append(yf_calls, [symbol |-> ScrapeAt, raised |-> TRUE])
    /\ UNCHANGED <<pc, yf_symbols, run, analysis, pure, retry_count, retry_delay, attempt,
                   gets, slept, raw_rows, clock, df, base_reason,
                   cleaned, needs_fallback, reasons, prefer, available, requested, todo, cur, pidx,
                   tried, results, history, fb_cleaned, blocked>>

\* the loop is over: scrape returns result
ScrapeReturn ==
    /\ pc = "scrape"
    /\ Len(yf_calls) = Len(yf_symbols)
    /\ pc' = "scrape_done"
    /\ UNCHANGED <<yf_symbols, yf_result, yf_calls, run, analysis, pure, retry_count,
                   retry_delay, attempt, gets, slept, raw_rows, clock, df, base_reason,
                   cleaned, needs_fallback, reasons, prefer, available, requested, todo, cur, pidx,
                   tried, results, history, fb_cleaned, blocked>>

InitScrape ==
    /\ pc = "scrape"
    /\ \E n \in 0..MaxSymbols : \E l \in [1..n -> ScrapeSymbols] : yf_symbols = l
    /\ yf_result = <<>>
    /\ yf_calls = <<>>
    /\ retry_count = 0
    /\ retry_delay = 0
    /\ attempt = 0
    /\ gets = <<>>
    /\ slept = <<>>
    /\ raw_rows = <<>>
    /\ prefer = "coingecko"
    /\ available = {}
    /\ requested = {}
    /\ NothingValidated
    /\ NothingAnalysed
    /\ NothingCalled

NextScrape == ScrapeSymbolReturns \/ ScrapeSymbolRaises \/ ScrapeReturn

SpecScrape == InitScrape /\ [][NextScrape]_vars

-----------------------------------------------------------------------------
(* BaseScraper._make_request of scrapers/base_scraper.py *)

\* the values of retry_delay, in seconds
RetryDelays == {0, 2, 5}

\* session.get answers and raise_for_status passes: the response is returned
RequestSucceeds ==
    /\ pc = "request"
    /\ attempt <= retry_count
    /\ gets' = Append(gets, "ok")
    /\ pc' = "request_returned"
    /\ UNCHANGED <<retry_count, retry_delay, attempt, slept, yf_symbols, yf_result, yf_calls, run, analysis, pure,
                   raw_rows, clock, df, base_reason,
                   cleaned, needs_fallback, reasons, prefer, available, requested, todo, cur, pidx,
                   tried, results, history, fb_cleaned, blocked>>

\* mutant: the first RequestException is raised again at once
RequestFailsRetry_raises ==
    /\ pc = "request"
    /\ attempt < retry_count
    /\ gets' = Append(gets, "RequestException")
    /\ pc' = "request_raised"
    /\ UNCHANGED <<retry_count, retry_delay, attempt, slept, yf_symbols, yf_result, yf_calls, run, analysis, pure,
                   raw_rows, clock, df, base_reason,
                   cleaned, needs_fallback, reasons, prefer, available, requested, todo, cur, pidx,
                   tried, results, history, fb_cleaned, blocked>>

\* a RequestException before the last attempt: sleep, then the next attempt
RequestFailsRetry ==
    /\ pc = "request"
    /\ attempt < retry_count
    /\ gets' = Append(gets, "RequestException")
    /\ slept' = Append(slept, retry_delay)
    /\ attempt' = attempt + 1
    /\ UNCHANGED <<pc, retry_count, retry_delay, yf_symbols, yf_result, yf_calls, run, analysis, pure,
                   raw_rows, clock, df, base_reason,
                   cleaned, needs_fallback, reasons, prefer, available, requested, todo, cur, pidx,
                   tried, results, history, fb_cleaned, blocked>>

\* a RequestException at the last attempt is raised again
RequestFailsLast ==
    /\ pc = "request"
    /\ attempt = retry_count
    /\ gets' = Append(gets, "RequestException")
    /\ pc' = "request_raised"
    /\ UNCHANGED <<retry_count, retry_delay, attempt, slept, yf_symbols, yf_result, yf_calls, run, analysis, pure,
                   raw_rows, clock, df, base_reason,
                   cleaned, needs_fallback, reasons, prefer, available, requested, todo, cur, pidx,
                   tried, results, history, fb_cleaned, blocked>>

\* range(retry_count + 1) is empty: the function ends without a response
RequestNotMade ==
    /\ pc = "request"
    /\ retry_count < 0
    /\ pc' = "request_none"
    /\ UNCHANGED <<retry_count, retry_delay, attempt, gets, slept, yf_symbols, yf_result, yf_calls, run, analysis, pure,
                   raw_rows, clock, df, base_reason,
                   cleaned, needs_fallback, reasons, prefer, available, requested, todo, cur, pidx,
                   tried, results, history, fb_cleaned, blocked>>

InitRequest ==
    /\ pc = "request"
    /\ retry_count \in -1..MaxRetries
    /\ retry_delay \in RetryDelays
    /\ attempt = 0
    /\ gets = <<>>
    /\ slept = <<>>
    /\ yf_symbols = <<>>
    /\ yf_result = <<>>
    /\ yf_calls = <<>>
    /\ raw_rows = <<>>
    /\ prefer = "coingecko"
    /\ available = {}
    /\ requested = {}
    /\ NothingValidated
    /\ NothingAnalysed
    /\ NothingCalled

NextRequest == RequestSucceeds \/ RequestFailsRetry \/ RequestFailsLast \/ RequestNotMade

SpecRequest == InitRequest /\ [][NextRequest]_vars

-----------------------------------------------------------------------------
(* Properties of validate_prices *)

Validated == pc = "validated"

\* every row of the batch came with its own timestamp
AllStamped == \A i \in DOMAIN raw_rows : raw_rows[i].ts # NoTs

SameKey(f, i, j) == f[i].ts = f[j].ts /\ f[i].price = f[j].price

\* C3: every row that passed the per-row checks and shares its (timestamp,
\* price) pair with a per-row-valid row of a different symbol is marked
\* x_symbol_same_price, and so is absent from cleaned_rows.  Stated for the
\* batches whose rows all carry a timestamp, where no clock value takes part.
C3_CollidingRowsMarked ==
    (Validated /\ AllStamped) =>
        \A i \in DOMAIN df : \A j \in DOMAIN df :
            ( /\ base_reason[i] = NoReason
              /\ base_reason[j] = NoReason
              /\ SameKey(df, i, j)
              /\ Upper(df[i].symbol) # Upper(df[j].symbol) )
            => /\ df[i].invalid_reason = "x_symbol_same_price"
               /\ \A k \in DOMAIN cleaned : cleaned[k] # df[i]

\* C4: a row whose (timestamp, price) pair is not shared with a row of a
\* different symbol is never marked x_symbol_same_price.  Stated for the
\* batches whose rows all carry a timestamp, where no clock value takes part.
C4_OnlyCollidingRowsMarked ==
    (Validated /\ AllStamped) =>
        \A i \in DOMAIN df :
            df[i].invalid_reason = "x_symbol_same_price"
            => \E j \in DOMAIN df : df[j].symbol # df[i].symbol /\ SameKey(df, i, j)

\* C5: the per-row reason is the first match of price_nan, price_nonpositive,
\* out_of_bounds, in this order; a row that matches several rules records only
\* the first, and a row with a positive in-bounds price gets no per-row reason.
C5_ReasonPriority ==
    Validated =>
        \A i \in DOMAIN df :
            LET p == df[i].price
                positive == p # NULL /\ ~DecLE(p, Num(0, 0))
                inside == p # NULL /\ in_bounds(df[i].symbol, p)
            IN  /\ p = NULL => base_reason[i] = "price_nan"
                /\ (p # NULL /\ ~positive) => base_reason[i] = "price_nonpositive"
                /\ (positive /\ ~inside) => base_reason[i] = "out_of_bounds"
                /\ (positive /\ inside) => base_reason[i] = NoReason

\* a row whose price is both non-positive and out of bounds records only
\* price_nonpositive, next to a row of positive price that is out of bounds
C5_Witness ==
    /\ Validated
    /\ \E i \in DOMAIN df :
        /\ df[i].price # NULL
        /\ DecLE(df[i].price, Num(0, 0))
        /\ ~in_bounds(df[i].symbol, df[i].price)
        /\ base_reason[i] = "price_nonpositive"
    /\ \E i \in DOMAIN df : base_reason[i] = "out_of_bounds"

NonNullIdx(f, sym) == {i \in DOMAIN f : f[i].symbol = sym /\ f[i].price # NULL}

\* the Window latest non-null prices of sym, in timestamp order (rows of one
\* timestamp in input order), exist and are all equal
LatestAllEqual(f, sym) ==
    \E S \in SUBSET NonNullIdx(f, sym) :
        /\ Cardinality(S) = Window
        /\ \A i \in S : \A j \in NonNullIdx(f, sym) \ S : Before(f, j, i)
        /\ \A i \in S : \A j \in S : f[i].price = f[j].price

\* C6: a symbol is flagged constant_price_last_5 exactly when it has at least 5
\* non-null prices and the 5 latest of them in timestamp order are all equal;
\* the per-row reasons play no part.
C6_StuckFeedExactly ==
    Validated =>
        /\ DOMAIN reasons \subseteq SymbolsOf(df)
        /\ \A sym \in SymbolsOf(df) :
            /\ sym \in DOMAIN reasons <=> LatestAllEqual(df, sym)
            /\ sym \in DOMAIN reasons => reasons[sym] = "constant_price_last_5"

\* flagged although an earlier price differs, the rows arrive latest first and
\* every row of the constant tail failed the bounds check
C6_Witness ==
    /\ Validated
    /\ \E sym \in DOMAIN reasons :
        /\ \E i \in NonNullIdx(df, sym) : \E j \in NonNullIdx(df, sym) :
            df[i].price # df[j].price /\ df[i].ts < df[j].ts /\ j < i
        /\ \E i \in NonNullIdx(df, sym) :
            /\ df[i].invalid_reason = "out_of_bounds"
            /\ \A j \in NonNullIdx(df, sym) : Before(df, j, i) \/ j = i


-----------------------------------------------------------------------------
(* Properties of get_fallback_prices *)

Returned == pc = "fb_return"

OtherProvider(name) == CHOOSE other \in KnownProviders : other # name
IsAvailable(name) == name \in available

\* the order the claim gives: the preferred provider, then the other known one
PreferenceOrder == SelectSeq(<<prefer, OtherProvider(prefer)>>, IsAvailable)

\* C7: for each requested symbol the providers are tried in preference order,
\* and the source of its row is the tag of the first provider in that order
\* that returned data for the symbol.
C7_FirstProviderWithDataWins ==
    Returned =>
        /\ \A sym \in DOMAIN history :
            /\ Len(history[sym]) <= Len(PreferenceOrder)
            /\ \A k \in DOMAIN history[sym] : history[sym][k].name = PreferenceOrder[k]
        /\ \A i \in DOMAIN results :
            LET h == history[results[i].symbol]
            IN  \E k \in DOMAIN h :
                    /\ h[k].kind = "rec"
                    /\ \A j \in 1..(k - 1) : h[j].kind # "rec"
                    /\ results[i].source = FallbackTag(h[k].name)

\* the preferred provider had no record, the secondary one a valid price
C7_Witness ==
    /\ Returned
    /\ prefer = "coingecko"
    /\ \E i \in DOMAIN results :
        /\ results[i].source = "coinmarketcap_fallback"
        /\ Len(history[results[i].symbol]) = 2
        /\ history[results[i].symbol][1].kind = "none"

\* C8: the search over providers for a symbol stops only at the first provider
\* that returns a record with a parseable, defined price: if it stops before
\* the last provider, the last call made gave such a record.
C8_StopsOnlyAtDefinedPrice ==
    Returned =>
        \A sym \in DOMAIN history :
            LET h == history[sym]
            IN  Len(h) < Len(providers(prefer, available))
                => /\ h # <<>>
                   /\ h[Len(h)].kind = "rec"
                   /\ parse_numeric(h[Len(h)].price) # NULL

\* C9: an exception of a provider call is caught: it never leaves the function,
\* the next provider is still tried for the symbol, and every requested symbol
\* is looked up.
C9_ProviderExceptionCaught ==
    /\ pc # "raised"
    /\ Returned =>
        /\ DOMAIN history = {Upper(s) : s \in requested}
        /\ \A sym \in DOMAIN history : \A k \in DOMAIN history[sym] :
            (history[sym][k].kind = "raise" /\ k < Len(PreferenceOrder))
            => Len(history[sym]) > k

\* the first provider raised for one symbol, the second one then gave its row,
\* and the other symbol was looked up too
C9_Witness ==
    /\ Returned
    /\ Cardinality(DOMAIN history) = 2
    /\ \E i \in DOMAIN results :
        LET h == history[results[i].symbol]
        IN  Len(h) = 2 /\ h[1].kind = "raise" /\ h[2].kind = "rec"
    /\ \E sym \in DOMAIN history :
        Len(history[sym]) = 2 /\ history[sym][2].kind = "raise"

-----------------------------------------------------------------------------
(* Properties of process_trading_rows *)

Done == pc = "done"

HasRow(rows, sym) == \E k \in DOMAIN rows : rows[k].symbol = sym

\* C1: after process_trading_rows every symbol of needs_fallback has a row in
\* the final cleaned set or is in blocked.
C1_NeverSilentlyPassed ==
    Done => \A sym \in needs_fallback : HasRow(cleaned, sym) \/ sym \in blocked

\* one symbol got a fallback row that failed re-validation and is blocked,
\* another one is resolved by its fallback row
C1_Witness ==
    /\ Done
    /\ \E sym \in needs_fallback :
        /\ HasRow(results, sym)
        /\ ~HasRow(cleaned, sym)
        /\ sym \in blocked
    /\ \E sym \in needs_fallback : HasRow(fb_cleaned, sym) /\ sym \notin blocked

\* C2: a symbol flagged constant_price_last_5 is in blocked whatever the
\* fallback outcome.
C2_StuckFeedAlwaysBlocked ==
    Done => \A sym \in DOMAIN reasons :
                reasons[sym] = "constant_price_last_5" => sym \in blocked

\* the flagged symbol got a differing in-bounds replacement row, appended to cleaned
C2_Witness ==
    /\ Done
    /\ \E sym \in DOMAIN reasons :
        /\ sym \in blocked
        /\ \E k \in DOMAIN fb_cleaned :
            /\ fb_cleaned[k].symbol = sym
            /\ \A i \in DOMAIN df : df[i].symbol = sym => df[i].price # fb_cleaned[k].price
            /\ \E c \in DOMAIN cleaned : cleaned[c] = fb_cleaned[k]

\* C10: for every symbol of needs_fallback that is not stuck-feed flagged, if
\* the resolver returned a row for it that passed re-validation, the final
\* cleaned set holds that row and the symbol is not in blocked.  The row the
\* resolver returns for a symbol carries the symbol in upper case.
C10_ResolvedNotBlocked ==
    Done =>
        \A sym \in needs_fallback \ DOMAIN reasons :
            \A k \in DOMAIN fb_cleaned :
                fb_cleaned[k].symbol = Upper(sym)
                => /\ \E c \in DOMAIN cleaned : cleaned[c] = fb_cleaned[k]
                   /\ sym \notin blocked

\* C11: a second run of process_trading_rows on the cleaned rows of a run that
\* flagged no stuck-feed symbol returns the same rows and an empty blocked set.
C11_RerunIsIdentity ==
    (Done /\ run = 2) => (cleaned = raw_rows /\ blocked = {})

\* C12: whatever missing, null or unparseable values the rows hold,
\* process_trading_rows and the validate_prices it calls raise no exception.
C12_NoExceptionEscapes == pc # "raised"

-----------------------------------------------------------------------------
(* Properties of validate_prices on rows of bad quality *)

ValidateEnded == pc \in {"validated", "raised"}

\* C13: a row whose ts cannot be parsed is treated as a row without timestamp:
\* the call returns, the row gets a value of the clock, its reason is the one
\* its price gives, and the other rows keep their timestamps.
C13_BadTsIsNoTs ==
    ValidateEnded =>
        /\ pc = "validated"
        /\ Len(df) = Len(raw_rows)
        /\ \A i \in DOMAIN df :
            /\ raw_rows[i].ts = BadTs => df[i].ts >= ClockBase
            /\ raw_rows[i].ts >= 0 => df[i].ts = raw_rows[i].ts
            /\ base_reason[i] =
                   check_bounds(df[i].symbol, df[i].price, BasicReason(df[i].price))

-----------------------------------------------------------------------------
(* Properties of validate_prices on the symbols *)

\* C14: symbols that differ only in letter case are one symbol: needs_fallback
\* holds no two of them, and the collision pass marks a row only when a row of
\* another symbol, compared in upper case, shares its timestamp and price.
C14_SymbolsCaseInsensitive ==
    Validated =>
        /\ \A s1 \in needs_fallback : \A s2 \in needs_fallback :
            Upper(s1) = Upper(s2) => s1 = s2
        /\ \A i \in DOMAIN df :
            df[i].invalid_reason = "x_symbol_same_price"
            => \E j \in DOMAIN df :
                Upper(df[j].symbol) # Upper(df[i].symbol) /\ SameKey(df, i, j)

\* C15: needs_fallback is exactly the set of the symbols that have a row with
\* an invalid_reason, united with the set of the stuck-feed flagged symbols.
C15_NeedsFallbackExactly ==
    Validated =>
        needs_fallback =
            {sym \in SymbolsOf(df) :
                \E i \in DOMAIN df : df[i].symbol = sym /\ df[i].invalid_reason # NoReason}
            \cup DOMAIN reasons

\* a flagged symbol whose rows all passed is in needs_fallback, the symbol of a
\* failed row is in it without a flag, in a batch that holds both
C15_Witness ==
    /\ Validated
    /\ \E sym \in needs_fallback :
        /\ sym \in DOMAIN reasons
        /\ \A i \in DOMAIN df : df[i].symbol = sym => df[i].invalid_reason = NoReason
    /\ \E sym \in needs_fallback : sym \notin DOMAIN reasons

\* C16: the stuck-feed pass sets no invalid_reason: every row keeps the reason
\* the per-row checks and the collision pass gave it, a row without reason is
\* in cleaned_rows also when its symbol is flagged, and a flagged symbol is in
\* needs_fallback and in reasons.
C16_StuckFeedLeavesRows ==
    Validated =>
        /\ \A i \in DOMAIN df :
            /\ df[i].invalid_reason \in {base_reason[i], "x_symbol_same_price"}
            /\ df[i].invalid_reason = NoReason => \E k \in DOMAIN cleaned : cleaned[k] = df[i]
        /\ Len(cleaned) = Cardinality({i \in DOMAIN df : df[i].invalid_reason = NoReason})
        /\ \A sym \in SymbolsOf(df) :
            IsConstantTail(GroupPrices(df, sym))
            => sym \in needs_fallback /\ sym \in DOMAIN reasons

\* five valid rows of a flagged symbol are all in cleaned_rows
C16_Witness ==
    /\ Validated
    /\ \E sym \in DOMAIN reasons :
        /\ sym \in needs_fallback
        /\ Cardinality({k \in DOMAIN cleaned : cleaned[k].symbol = sym}) >= Window
        /\ \A i \in DOMAIN df : df[i].symbol = sym => df[i].invalid_reason = NoReason

-----------------------------------------------------------------------------
(* Properties of the fallback resolution *)

InResolver == pc \in {"fb_entry", "fb_loop", "fb_call"}

\* C17: process_trading_rows enters the resolver only after the first
\* validation pass and only with a non-empty needs_fallback, which it hands
\* over as it is; with an empty needs_fallback no provider list is built and
\* no call is made; no provider is asked for a symbol outside needs_fallback.
C17_FallbackOnlyForNeeded ==
    /\ InResolver => (needs_fallback # {} /\ requested = needs_fallback)
    /\ needs_fallback = {} => (tried = <<>> /\ history = <<>> /\ results = <<>>)
    /\ DOMAIN history \subseteq {Upper(s) : s \in needs_fallback}
    /\ tried # <<>> => cur \in {Upper(s) : s \in needs_fallback}

\* a provider was asked for the symbol that failed, and not for the symbol of
\* the same batch that passed
C17_Witness ==
    /\ Done
    /\ \E sym \in DOMAIN history : history[sym] # <<>>
    /\ \E sym \in SymbolsOf(df) : Upper(sym) \notin DOMAIN history

Positive(p) == p # NULL /\ ~DecLE(p, Num(0, 0))

\* C18: every row get_fallback_prices returns has a non-null, strictly
\* positive price, and a requested symbol for which no provider gave such a
\* price under the key price has no row in the output.
C18_OnlyPositivePrices ==
    /\ \A i \in DOMAIN results : Positive(results[i].price)
    /\ Returned =>
        \A sym \in DOMAIN history :
            (\A k \in DOMAIN history[sym] : ~Positive(parse_numeric(history[sym][k].price)))
            => ~HasRow(results, sym)

\* one symbol got a record of price zero and has no row, the other has its row
C18_Witness ==
    /\ Returned
    /\ results # <<>>
    /\ \E sym \in DOMAIN history :
        /\ ~HasRow(results, sym)
        /\ \E k \in DOMAIN history[sym] :
            history[sym][k].kind = "rec" /\ history[sym][k].price = Num(0, 0)

\* C19: a record of the generic-scrape provider that carries its price under
\* current_price yields the row the same price under the key price yields:
\* when the search for a symbol ends at such a record, the output holds a row
\* of that price for the symbol, tagged with the provider.
C19_EitherKeyNaming ==
    Returned =>
        \A sym \in DOMAIN history :
            LET h == history[sym]
            IN  ( /\ h # <<>>
                  /\ h[Len(h)].kind = "rec"
                  /\ h[Len(h)].name = "coinmarketcap"
                  /\ h[Len(h)].price = NULL
                  /\ Positive(h[Len(h)].alt) )
                => \E i \in DOMAIN results :
                    /\ results[i].symbol = sym
                    /\ results[i].price = parse_numeric(h[Len(h)].alt)
                    /\ results[i].source = "coinmarketcap_fallback"

-----------------------------------------------------------------------------
(* Properties of analyze_trends *)

AnalyzeEnded == pc \in {"analyzed", "analyze_raised"}

IsSentinel(d) == DOMAIN d = {"coin", "blocked", "reason"}

\* C20: for a coin in blocked_symbols the call returns the sentinel
\* {coin, blocked: True, reason: data_quality_blocked}, without stop_loss or
\* take_profit, whatever the frame holds; for a coin that is not in
\* blocked_symbols it never returns the sentinel.
C20_BlockedCoinGetsSentinel ==
    AnalyzeEnded =>
        IF ~blocked_arg.none /\ coin \in blocked_arg.syms
        THEN /\ pc = "analyzed"
             /\ IsSentinel(strategy)
             /\ strategy.coin = coin
             /\ strategy.blocked = TRUE
             /\ strategy.reason = "data_quality_blocked"
        ELSE pc = "analyzed" => ("blocked" \notin DOMAIN strategy /\ "stop_loss" \in DOMAIN strategy)

\* the blocked coin has no column in the frame, and the sentinel is returned
C20_Witness ==
    /\ pc = "analyzed"
    /\ coin \in blocked_arg.syms
    /\ coin \notin DOMAIN data
    /\ DOMAIN data # {}
    /\ IsSentinel(strategy)

-----------------------------------------------------------------------------
(* Properties of in_bounds *)

InBoundsEnded == pc = "in_bounds_done"

\* C21: in_bounds(symbol, price) is true exactly when low <= price <= high, both
\* ends included, where (low, high) is the entry of the upper-cased symbol in the
\* table and the wide default range for a symbol the table does not hold; so
\* BTC at 10 and at 2,000,000 is inside and BTC at 9.999 is outside.
C21_InBoundsInclusive ==
    InBoundsEnded =>
        LET key == Upper(args.symbol)
            range == IF key \in DOMAIN BOUNDS THEN BOUNDS[key] ELSE DEFAULT_BOUNDS
        IN  /\ ret = (DecLE(range[1], args.price) /\ DecLE(args.price, range[2]))
            /\ (key = "BTC" /\ args.price \in {Num(1, 1), Num(2, 6)}) => ret = TRUE
            /\ (key = "BTC" /\ args.price = Num(9999, -3)) => ret = FALSE
            /\ (key = "DOGE" /\ args.price \in {Num(1, -12), Num(1, 9)}) => ret = TRUE

\* a lower-case symbol of the table is asked at the low end of its range
C21_Witness ==
    /\ InBoundsEnded
    /\ args.symbol = "btc"
    /\ args.price = Num(1, 1)
    /\ ret = TRUE

-----------------------------------------------------------------------------
(* Properties of parse_numeric *)

ParseEnded == pc = "parse_numeric_done"

IsText(value) == value.k = "str"

\* the text holds no digit
NoDigit(s) == \A i \in DOMAIN s : s[i] \notin Digits

\* the letters of the text, in order
Letters(s) == SelectSeq(s, LAMBDA c : c \in {"N", "A", "K", "m", "e"})

\* the suffixes and the power of ten each multiplies by
Suffixes ==
    {<<"K", 3>>, <<"k", 3>>, <<"M", 6>>, <<"m", 6>>, <<"B", 9>>, <<"b", 9>>, <<"T", 12>>,
     <<"t", 12>>}

\* C22: parse_numeric is total, every string, number or null gives a float or
\* null and nothing is raised; null, the empty string and a text without a
\* digit give null, except that a text which spells nan, the word float()
\* reads as not-a-number, gives the float nan; a suffix K, M, B or T in either
\* case multiplies the number before it by 1e3, 1e6, 1e9 or 1e12.
C22_ParseNumericTotal ==
    ParseEnded =>
        /\ ret.k \in {"null", "num", "nan", "inf"}
        /\ args.value = NULL => ret = NULL
        /\ IsText(args.value) =>
            LET s == args.value.s
            IN  /\ Strip(s) = <<>> => ret = NULL
                /\ s = <<"N", "/", "A">> => ret = NULL
                /\ NoDigit(s) => ret \in {NULL, NaN}
                /\ ret = NaN => (NoDigit(s) /\ Lower(Without(Letters(s), {"K", "m"})) = <<"n", "a", "n">>)
                /\ (ret.k = "num" /\ s[Len(s)] \in Digits \cup {"."}) =>
                       \A x \in Suffixes :
                           parse_numeric(Str(Append(s, x[1]))) = Norm(ret.m, ret.e + x[2])

\* a number with a lower-case suffix is multiplied
C22_Witness ==
    /\ ParseEnded
    /\ args.value = Str(<<"$", "5", "m">>)
    /\ ret = Num(5, 6)

\* the statement as written: every text without a digit gives null
C22_NoDigitGivesNull ==
    (ParseEnded /\ IsText(args.value) /\ NoDigit(args.value.s)) => ret = NULL

-----------------------------------------------------------------------------
(* Properties of YahooFinanceScraper.scrape *)

ScrapeEnded == pc = "scrape_done"

HasError(entry) == "error" \in DOMAIN entry

\* the last call of scrape_symbol made for the symbol
LastCall(symbol) ==
    LET last == CHOOSE i \in DOMAIN yf_calls :
                    /\ yf_calls[i].symbol = symbol
                    /\ \A j \in DOMAIN yf_calls : yf_calls[j].symbol = symbol => j <= i
    IN  yf_calls[last]

\* C23: scrape returns a mapping with one entry for every distinct symbol of the
\* list and calls scrape_symbol once for every element of the list, in the order
\* of the list, whether or not earlier calls failed; the entry of a symbol holds
\* the key error exactly when the last call made for that symbol failed, so the
\* failure of a symbol that the list names again is replaced by the later result.
C23_OneEntryPerSymbol ==
    ScrapeEnded =>
        /\ DOMAIN yf_result = {yf_symbols[i] : i \in DOMAIN yf_symbols}
        /\ [i \in DOMAIN yf_calls |-> yf_calls[i].symbol] = yf_symbols
        /\ \A symbol \in DOMAIN yf_result :
              HasError(yf_result[symbol]) <=> LastCall(symbol).raised

\* the first of three symbols fails, the other two are scraped all the same
C23_Witness ==
    /\ ScrapeEnded
    /\ yf_symbols = <<"AAPL", "MSFT", "MSFT">>
    /\ yf_calls[1].raised
    /\ HasError(yf_result["AAPL"])
    /\ ~HasError(yf_result["MSFT"])

\* the statement as written: every failed call leaves an entry holding the key error
C23_FailureLeavesError ==
    ScrapeEnded =>
        \A i \in DOMAIN yf_calls :
            yf_calls[i].raised => HasError(yf_result[yf_calls[i].symbol])

-----------------------------------------------------------------------------
(* Properties of YahooFinanceScraper._parse_value *)

ParseValueEnded == pc = "_parse_value_done"

\* the text once trimmed and without its commas
Bare(s) == Without(Strip(s), {","})

\* digits with at most one point among them
IsPlain(t) ==
    /\ \A i \in DOMAIN t : t[i] \in Digits \cup {"."}
    /\ Cardinality({i \in DOMAIN t : t[i] = "."}) <= 1
    /\ \E i \in DOMAIN t : t[i] \in Digits

\* the number a plain text writes
PlainValue(t) ==
    LET point == IndexOf(t, {"."})
    IN  Norm(ToInt(Without(t, {"."})), IF point = 0 THEN 0 ELSE point - Len(t))

\* the upper-case suffixes and the power of ten each multiplies by
UpperSuffixes == {<<"K", 3>>, <<"M", 6>>, <<"B", 9>>, <<"T", 12>>}

\* C24: _parse_value never raises on a text; it gives None for None, for the
\* empty text and for N/A; otherwise commas are dropped and digits with at most
\* one point give their number, multiplied by 1e3, 1e6, 1e9 or 1e12 when K, M, B
\* or T follows them; a text without a point and without a suffix that is not a
\* whole number, exponent notation included, gives None; a text without a digit
\* gives None, except that nan before a suffix gives the float nan.
C24_ParseValue ==
    ParseValueEnded =>
        /\ ret.k \in {"null", "num", "nan", "inf"}
        /\ args.value_text = NULL => ret = NULL
        /\ IsText(args.value_text) =>
            LET s == args.value_text.s
                t == Bare(s)
                suffixed == t # <<>> /\ t[Len(t)] \in {"K", "M", "B", "T"}
            IN  /\ (s = <<>> \/ Strip(s) = <<"N", "/", "A">>) => ret = NULL
                /\ IsPlain(t) => ret = PlainValue(t)
                /\ \A x \in UpperSuffixes :
                      (suffixed /\ t[Len(t)] = x[1] /\ IsPlain(Front(t))) =>
                          ret = Times(PlainValue(Front(t)), x[2])
                /\ (~suffixed /\ "." \notin {t[i] : i \in DOMAIN t}
                        /\ ~(Unsigned(Strip(t)) # <<>> /\ IsDigits(Unsigned(Strip(t))))) => ret = NULL
                /\ NoDigit(s) => ret \in {NULL, NaN}
                /\ ret = NaN => (suffixed /\ Lower(Unsigned(Strip(Front(t)))) = <<"n", "a", "n">>)

\* a number with thousands commas and a suffix
C24_Witness ==
    /\ ParseValueEnded
    /\ args.value_text = Str(<<"1", ",", "1", "M">>)
    /\ ret = Num(11, 6)

\* the statement as written: a text that holds no number gives None
C24_NotANumberGivesNone ==
    (ParseValueEnded /\ IsText(args.value_text) /\ NoDigit(args.value_text.s)) => ret = NULL

-----------------------------------------------------------------------------
(* Properties of the passes of validate_prices *)

\* C25: within validate_prices invalid_reason is written once: a row that has
\* price_nan or price_nonpositive keeps it through the bounds check, a row that
\* has a reason after the bounds check keeps it through the collision pass and
\* the stuck-feed pass, and the collision pass gives x_symbol_same_price only
\* to rows that had no reason.
C25_ReasonWrittenOnce ==
    Validated =>
        \A i \in DOMAIN df :
            /\ BasicReason(df[i].price) # NoReason => base_reason[i] = BasicReason(df[i].price)
            /\ base_reason[i] # NoReason => df[i].invalid_reason = base_reason[i]
            /\ df[i].invalid_reason # base_reason[i] =>
                   (base_reason[i] = NoReason /\ df[i].invalid_reason = "x_symbol_same_price")

\* a row out of bounds stands before a row of the same timestamp and price that
\* the collision pass marks, and keeps its reason
C25_Witness ==
    /\ Validated
    /\ \E i, k \in DOMAIN df :
          /\ i < k
          /\ base_reason[i] = "out_of_bounds" /\ df[i].invalid_reason = "out_of_bounds"
          /\ SameKey(df, i, k)
          /\ base_reason[k] = NoReason /\ df[k].invalid_reason = "x_symbol_same_price"

\* C30: validate_prices never assigns bounds_eval_error: every row that reaches
\* the bounds check has a price that is a positive float, and the symbol is
\* turned into a str first, so a row without symbol or with a symbol that is no
\* str is checked against the default range like any other.
C30_NoBoundsEvalError ==
    Validated =>
        \A i \in DOMAIN df :
            /\ base_reason[i] # "bounds_eval_error"
            /\ df[i].invalid_reason # "bounds_eval_error"
            /\ BasicReason(df[i].price) = NoReason => Positive(df[i].price)
            /\ (Positive(df[i].price) /\ df[i].symbol \in {NoSymbol, NumSymbol}) =>
                   base_reason[i] =
                       (IF DecLE(DEFAULT_BOUNDS[1], df[i].price)
                           /\ DecLE(df[i].price, DEFAULT_BOUNDS[2])
                        THEN NoReason ELSE "out_of_bounds")

\* a row without symbol passes the bounds check next to a row without price, one
\* whose price text gives nan and one whose symbol is an int
C30_Witness ==
    /\ Validated
    /\ \E i, j, k \in DOMAIN df :
          /\ df[i].symbol = NoSymbol /\ df[i].price = Num(5, 0) /\ base_reason[i] = NoReason
          /\ raw_rows[j].price = NULL /\ base_reason[j] = "price_nan"
          /\ raw_rows[k].price = Str(<<"N", "A", "N">>) /\ raw_rows[k].symbol = NumSymbol
          /\ base_reason[k] = "price_nan"

-----------------------------------------------------------------------------
(* Properties of the frame process_trading_rows returns *)

\* the row of cleaned is the row of the fallback results
IsResultRow(row, res) ==
    /\ row.symbol = res.symbol
    /\ row.price = res.price
    /\ row.ts = res.ts
    /\ row.source = res.source

\* the range of the symbol: its entry in the table, or the default range
RangeOf(symbol) ==
    IF Upper(symbol) \in DOMAIN BOUNDS THEN BOUNDS[Upper(symbol)] ELSE DEFAULT_BOUNDS

InRange(symbol, price) ==
    DecLE(RangeOf(symbol)[1], price) /\ DecLE(price, RangeOf(symbol)[2])

\* C26: every row of the cleaned frame process_trading_rows returns, a row of
\* the batch or a fallback row, has no invalid_reason and a price that is not
\* null, is strictly positive and lies in the range of its symbol; a fallback
\* row that fails the second validation is not in the frame.
C26_CleanedRowsAreValid ==
    Done =>
        /\ \A i \in DOMAIN cleaned :
              /\ cleaned[i].invalid_reason = NoReason
              /\ Positive(cleaned[i].price)
              /\ InRange(cleaned[i].symbol, cleaned[i].price)
        /\ \A k \in DOMAIN results :
              ~InRange(results[k].symbol, results[k].price) =>
                  \A i \in DOMAIN cleaned : ~IsResultRow(cleaned[i], results[k])

\* of two fallback rows one is out of the range of its symbol and left out, the
\* other is appended
C26_Witness ==
    /\ Done
    /\ \E k \in DOMAIN results : ~InRange(results[k].symbol, results[k].price)
    /\ \E k \in DOMAIN results : \E i \in DOMAIN cleaned : IsResultRow(cleaned[i], results[k])

\* the rows of the symbol in the frame of the first pass
RowsOf(f, sym) == {i \in DOMAIN f : f[i].symbol = sym}

\* C28: the blocked set process_trading_rows returns is a subset of the
\* needs_fallback set of the first pass: a symbol all of whose rows passed the
\* validation and that is not flagged for a stuck feed is never blocked.
C28_BlockedWithinNeedsFallback ==
    Done =>
        /\ blocked \subseteq needs_fallback
        /\ \A sym \in SymbolsOf(df) :
              ((\A i \in RowsOf(df, sym) : df[i].invalid_reason = NoReason)
                  /\ sym \notin DOMAIN reasons)
              => sym \notin blocked

\* one symbol is blocked, having found no fallback row, next to a symbol whose
\* rows all passed and that is not blocked
C28_Witness ==
    /\ Done
    /\ blocked = {"btc"}
    /\ results = <<>>
    /\ \E i \in DOMAIN df : df[i].symbol = "ETH" /\ df[i].invalid_reason = NoReason
    /\ "ETH" \notin blocked

\* C29: the fallback step only adds: the rows the first pass cleaned are in the
\* frame process_trading_rows returns, in their order and as they were, with the
\* accepted fallback rows after them, and the reasons map returned is the map
\* of the first pass.
C29_FallbackOnlyAdds ==
    Done =>
        /\ cleaned = CleanedRows(df) \o fb_cleaned
        /\ \A i \in DOMAIN fb_cleaned : \E k \in DOMAIN results : IsResultRow(fb_cleaned[i], results[k])
        /\ reasons = [sym \in flagged_symbols(df) |-> "constant_price_last_5"]

\* a row of the batch that passed is followed by an accepted fallback row
C29_Witness ==
    /\ Done
    /\ CleanedRows(df) # <<>>
    /\ fb_cleaned # <<>>
    /\ cleaned[1] = CleanedRows(df)[1]
    /\ cleaned[Len(cleaned)] = fb_cleaned[Len(fb_cleaned)]

-----------------------------------------------------------------------------
(* Properties of BaseScraper._make_request *)

Failed(i) == gets[i] = "RequestException"

\* C27: _make_request makes at most retry_count + 1 GET attempts for one URL; a
\* successful attempt is the last one made and its response is returned; after
\* every failed attempt but the last it sleeps retry_delay; the exception is
\* raised only when all retry_count + 1 attempts have failed.
C27_BoundedRetries ==
    /\ Len(gets) <= retry_count + 1
    /\ \A i \in 1..(Len(gets) - 1) : Failed(i)
    /\ \A i \in DOMAIN slept : slept[i] = retry_delay
    /\ pc = "request" => (Len(gets) = attempt /\ Len(slept) = attempt)
    /\ pc = "request_returned" =>
          (gets[Len(gets)] = "ok" /\ Len(slept) = Len(gets) - 1)
    /\ pc = "request_raised" =>
          /\ Len(gets) = retry_count + 1
          /\ \A i \in DOMAIN gets : Failed(i)
          /\ Len(slept) = retry_count
    /\ pc = "request_none" => (retry_count < 0 /\ gets = <<>>)

\* the third attempt of at most four succeeds after two sleeps
C27_Witness ==
    /\ pc = "request_returned"
    /\ retry_count = 3
    /\ gets = <<"RequestException", "RequestException", "ok">>
    /\ slept = <<retry_delay, retry_delay>>
    /\ retry_delay = 2

====
